---- MODULE Spec2Model ----
(***************************************************************************)
(* Model of scripts/validate_yaml_keys.py: YAML key-path extraction, the   *)
(* repository scan, the sorted key-count report, the per-PR analysis and   *)
(* comment classification, and the control flow of main.                   *)
(*                                                                         *)
(* Python str values are sequences of one-character strings, so that       *)
(* concatenation, endswith, the `in` substring test and lexicographic      *)
(* comparison are computed as Python computes them.  A dict is the         *)
(* sequence of its <<key, value>> items in insertion order.                *)
(***************************************************************************)
EXTENDS Integers, Sequences, FiniteSets, Bags, TLC

VARIABLES
    pc,               \* position of the operation under analysis
    data,             \* extract_keys: the parsed node passed in
    prefix,           \* extract_keys: the prefix passed in
    key_counts,       \* extract_keys: the dict returned
    file_path,        \* a repository-relative path, as its parts
    scan_lists,       \* whether find_yaml_files returns file_path
    pr_reaches,       \* whether analyze_pr_yaml_files gets to fetch file_path
    repo_key_counts,  \* main: the repository-wide key counts
    output_file,      \* write_key_counts: [written, lines] of yaml_key_counts.txt
    comment,          \* build_pr_comment: the sections of the comment built
    tree,             \* scan_repository: the paths of the files under the root
    yaml_files,       \* scan_repository: the list find_yaml_files returned
    file_index,       \* scan_repository: the position of the loop in yaml_files
    all_key_counts,   \* scan_repository: the running aggregate
    file_errors,      \* scan_repository: relative path -> errors
    parsed,           \* scan_repository: per file, what the loop held and printed
    pr_files,         \* analyze_pr_yaml_files: the list get_pr_files returned
    pr_index,         \* analyze_pr_yaml_files: the position of the loop in pr_files
    pr_key_counts,    \* analyze_pr_yaml_files: the PR's key counts
    pr_file_errors,   \* analyze_pr_yaml_files: filename -> errors
    fetch_outcome,    \* analyze_pr_yaml_files: what the fetch of the last file gave
    github_token,     \* main: GITHUB_TOKEN, "" when not set
    repo,             \* main: the repository name, "" when not determined
    prs,              \* process_pull_requests: the list get_open_prs returned
    pr_position,      \* process_pull_requests: the position of the loop in prs
    posted,           \* the PR numbers post_pr_comment was called for, in order
    pr_responses,     \* what the hosting API answered for the files of the current PR
    failed_calls,     \* the kinds of hosting-API requests that failed so far
    api_calls,        \* the number of requests sent to the hosting API
    exit_status       \* the status main exits with

extractVars == <<data, prefix, key_counts>>
pathVars == <<file_path, scan_lists, pr_reaches>>
reportVars == <<repo_key_counts, output_file, comment>>
scanVars == <<tree, yaml_files, file_index, all_key_counts, file_errors, parsed>>
prVars == <<pr_files, pr_index, pr_key_counts, pr_file_errors, fetch_outcome>>
mainVars == <<github_token, repo, prs, pr_position, posted, pr_responses, failed_calls,
             api_calls, exit_status>>

vars == <<pc, extractVars, pathVars, reportVars, scanVars, prVars, mainVars>>

NotUsed == "-"

\* the variables of the operations a specification does not run
ExtractIdle == data = NotUsed /\ prefix = NotUsed /\ key_counts = NotUsed
PathsIdle == file_path = NotUsed /\ scan_lists = NotUsed /\ pr_reaches = NotUsed
ReportIdle == repo_key_counts = NotUsed /\ output_file = NotUsed /\ comment = NotUsed
ScanIdle ==
    /\ tree = NotUsed
    /\ yaml_files = NotUsed
    /\ file_index = NotUsed
    /\ all_key_counts = NotUsed
    /\ file_errors = NotUsed
    /\ parsed = NotUsed
PrIdle ==
    /\ pr_files = NotUsed
    /\ pr_index = NotUsed
    /\ pr_key_counts = NotUsed
    /\ pr_file_errors = NotUsed
    /\ fetch_outcome = NotUsed
MainIdle ==
    /\ github_token = NotUsed
    /\ repo = NotUsed
    /\ prs = NotUsed
    /\ pr_position = NotUsed
    /\ posted = NotUsed
    /\ pr_responses = NotUsed
    /\ failed_calls = NotUsed
    /\ api_calls = NotUsed
    /\ exit_status = NotUsed

\* ---------------------------------------------------------------- bounds
MaxNodes == 4
MaxDirs == 3
MaxCount == 3
MaxChunks == 2
MaxPrFiles == 2
MaxPrs == 2

\* ------------------------------------------------------------ Python str
Lower == <<"a","b","c","d","e","f","g","h","i","j","k","l","m",
           "n","o","p","q","r","s","t","u","v","w","x","y","z">>

\* ord(c) for the characters the model uses
Ord(c) ==
    IF c = "." THEN 46
    ELSE IF c = "/" THEN 47
    ELSE IF c = "[" THEN 91
    ELSE IF c = "]" THEN 93
    ELSE 96 + (CHOOSE i \in DOMAIN Lower : Lower[i] = c)

\* s < t on str: the first differing character decides, a proper prefix is smaller
RECURSIVE StrLess(_, _)
StrLess(s, t) ==
    IF t = <<>> THEN FALSE
    ELSE IF s = <<>> THEN TRUE
    ELSE IF Head(s) = Head(t) THEN StrLess(Tail(s), Tail(t))
    ELSE Ord(Head(s)) < Ord(Head(t))

DOT == <<".">>
BRACKETS == <<"[", "]">>

\* ----------------------------------------------------------- Python dict
DictKeys(d) == {d[i][1] : i \in DOMAIN d}

DictGet(d, k, default) ==
    IF k \in DictKeys(d)
    THEN d[CHOOSE i \in DOMAIN d : d[i][1] = k][2]
    ELSE default

\* d[k] += n on a defaultdict(int): update in place, or insert at the end
DictAdd(d, k, n) ==
    IF k \in DictKeys(d)
    THEN [i \in DOMAIN d |-> IF d[i][1] = k THEN <<k, d[i][2] + n>> ELSE d[i]]
    ELSE Append(d, <<k, n>>)

\* for key, count in src.items(): acc[key] += count
RECURSIVE DictMerge(_, _)
DictMerge(acc, src) ==
    IF src = <<>> THEN acc
    ELSE DictMerge(DictAdd(acc, Head(src)[1], Head(src)[2]), Tail(src))

\* ------------------------------------------------------- parsed documents
Scalar == [kind |-> "scalar", items |-> <<>>]
None == [kind |-> "none", items |-> <<>>]
Dict(items) == [kind |-> "dict", items |-> items]
List(items) == [kind |-> "list", items |-> items]

\* ----------------------------------------------------------- extract_keys
RECURSIVE extract_keys(_, _), DictLoop(_, _, _), ListLoop(_, _, _)
RECURSIVE ListLoopUnderListPath(_, _, _)

\* for key, value in data.items(): ...
DictLoop(items, pfx, counts) ==
    IF items = <<>> THEN counts
    ELSE LET key == Head(items)[1]
             value == Head(items)[2]
             current_path == IF pfx # <<>> THEN pfx \o DOT \o key ELSE key
             counted == DictAdd(counts, current_path, 1)
             nested_counts == extract_keys(value, current_path)
         IN  DictLoop(Tail(items), pfx, DictMerge(counted, nested_counts))

\* ListLoop with a fault: the elements are extracted under the list path
ListLoopUnderListPath(items, pfx, counts) ==
    IF items = <<>> THEN counts
    ELSE LET nested_counts == extract_keys(Head(items), pfx \o BRACKETS)
         IN  ListLoopUnderListPath(Tail(items), pfx, DictMerge(counts, nested_counts))

\* for item in data: ...
ListLoop(items, pfx, counts) ==
    IF items = <<>> THEN counts
    ELSE LET nested_counts == extract_keys(Head(items), pfx)
         IN  ListLoop(Tail(items), pfx, DictMerge(counts, nested_counts))

extract_keys(node, pfx) ==
    IF node.kind = "dict" THEN DictLoop(node.items, pfx, <<>>)
    ELSE IF node.kind = "list"
    THEN LET list_path == IF pfx # <<>> THEN pfx \o BRACKETS ELSE BRACKETS
         IN  ListLoop(node.items, pfx, DictAdd(<<>>, list_path, 1))
    ELSE <<>>

\* -------------------------------------------------------- Python builtins
\* A sort key is a tuple of components, an int n as <<n, "">> and a str s as
\* <<0, s>>; tuples compare component by component, a proper prefix first.
IntKey(n) == <<n, <<>>>>
StrKey(s) == <<0, s>>

RECURSIVE KeyLess(_, _)
KeyLess(x, y) ==
    IF y = <<>> THEN FALSE
    ELSE IF x = <<>> THEN TRUE
    ELSE IF Head(x) = Head(y) THEN KeyLess(Tail(x), Tail(y))
    ELSE \/ Head(x)[1] < Head(y)[1]
         \/ (Head(x)[1] = Head(y)[1] /\ StrLess(Head(x)[2], Head(y)[2]))

\* sorted(seq, key=...): the stable sort, keys[i] being the key of seq[i]
Sorted(seq, keys) ==
    LET n == Len(seq)
        rank(i) == 1 + Cardinality({j \in 1..n :
                          \/ KeyLess(keys[j], keys[i])
                          \/ (~KeyLess(keys[i], keys[j]) /\ j < i)})
    IN  [r \in 1..n |-> seq[CHOOSE i \in 1..n : rank(i) = r]]

\* s.endswith(suffix)
EndsWith(s, suffix) ==
    /\ Len(suffix) <= Len(s)
    /\ SubSeq(s, Len(s) - Len(suffix) + 1, Len(s)) = suffix

\* sub in s, on str
Contains(s, sub) ==
    \E i \in 1..(Len(s) - Len(sub) + 1) : SubSeq(s, i, i + Len(sub) - 1) = sub

\* "/".join(parts)
RECURSIVE JoinPath(_)
JoinPath(parts) ==
    IF Len(parts) = 1 THEN parts[1]
    ELSE parts[1] \o <<"/">> \o JoinPath(Tail(parts))

Digit == <<"0", "1", "2", "3", "4", "5", "6", "7", "8", "9">>
\* str(n) for n >= 0
RECURSIVE IntToStr(_)
IntToStr(n) ==
    IF n < 10 THEN <<Digit[n + 1]>>
    ELSE IntToStr(n \div 10) \o <<Digit[(n % 10) + 1]>>

\* -------------------------------------------------------- find_yaml_files
DotGit == <<".", "g", "i", "t">>
DotGithub == <<".", "g", "i", "t", "h", "u", "b">>
Workflows == <<"w", "o", "r", "k", "f", "l", "o", "w", "s">>
DotGithubWorkflows == DotGithub \o <<"/">> \o Workflows
DotYml == <<".", "y", "m", "l">>
DotYaml == <<".", "y", "a", "m", "l">>

\* the key of a Path in sorted(): its parts, compared as a list of str
PathKey(parts) == [i \in DOMAIN parts |-> StrKey(parts[i])]

\* root_path.glob('**/*.yml') and glob('**/*.yaml'): the name decides
GlobMatches(parts, ext) == EndsWith(parts[Len(parts)], ext)

InParts(seg, parts) == \E i \in DOMAIN parts : parts[i] = seg

\* the two `continue` tests of find_yaml_files
ScanSkips(parts) ==
    \/ InParts(DotGit, parts)
    \/ (InParts(DotGithub, parts) /\ InParts(Workflows, parts))

\* the files of `files` (the set of paths under the root) that find_yaml_files returns, sorted
find_yaml_files(files) ==
    LET kept(ext) == {f \in files : GlobMatches(f, ext) /\ ~ScanSkips(f)}
        AsSeq(S) == CHOOSE q \in [1..Cardinality(S) -> S] :
                        \A i, j \in DOMAIN q : i # j => q[i] # q[j]
        found == AsSeq(kept(DotYml)) \o AsSeq(kept(DotYaml))
    IN  Sorted(found, [i \in DOMAIN found |-> PathKey(found[i])])

\* ---------------------------------------- analyze_pr_yaml_files: the filters
FileInfo(filename, status, raw_url) ==
    [filename |-> filename, status |-> status, raw_url |-> raw_url]

\* the file passes the extension, workflows and status tests
PrPassesFilters(file_info) ==
    /\ EndsWith(file_info.filename, DotYml) \/ EndsWith(file_info.filename, DotYaml)
    /\ ~Contains(file_info.filename, DotGithubWorkflows)
    /\ file_info.status # "removed"

\* ------------------------------------------------------- write_key_counts
\* f"{count}\t{key}\n"
FormatLine(item) == IntToStr(item[2]) \o <<"\t">> \o item[1] \o <<"\n">>

\* SortedItems with a fault: ascending count
SortedItemsAscending(counts) ==
    Sorted(counts, [i \in DOMAIN counts |-> <<IntKey(counts[i][2]), StrKey(counts[i][1])>>])

\* sorted(key_counts.items(), key=lambda x: (-x[1], x[0]))
SortedItems(counts) ==
    Sorted(counts, [i \in DOMAIN counts |-> <<IntKey(-counts[i][2]), StrKey(counts[i][1])>>])

\* before main writes it
NoOutputFile == [written |-> FALSE, lines |-> <<>>]

\* the output file after open(output_file, 'w') and the writes
write_key_counts(counts) ==
    LET sorted_items == SortedItems(counts)
    IN  [written |-> TRUE,
         lines |-> [i \in DOMAIN sorted_items |-> FormatLine(sorted_items[i])]]

\* ------------------------------------------------------- build_pr_comment
\* IsNewKey with a fault: a key is new when the PR counts it more often than the repository
IsNewKeyByComparison(item, repo_counts) == DictGet(repo_counts, item[1], 0) < item[2]

\* repo_count == 0
IsNewKey(item, repo_counts) == DictGet(repo_counts, item[1], 0) = 0

\* before a comment is built
NoComment == [all_valid |-> TRUE, table |-> <<>>, new_keys |-> <<>>, increased_keys |-> <<>>]

\* The sections of the comment: whether all files are valid, the table of all
\* keys, the new keys with their PR count, the increased keys as
\* (key, repo_count, pr_count, new_total).
build_pr_comment(pr_counts, repo_counts, pr_errors) ==
    LET new_items == SelectSeq(pr_counts, LAMBDA x : IsNewKey(x, repo_counts))
        increased_items ==
            SelectSeq(pr_counts, LAMBDA x : ~IsNewKey(x, repo_counts) /\ x[2] > 0)
        increased_keys ==
            [i \in DOMAIN increased_items |->
                LET key == increased_items[i][1]
                    pr_count == increased_items[i][2]
                    repo_count == DictGet(repo_counts, key, 0)
                IN  <<key, repo_count, pr_count, repo_count + pr_count>>]
    IN  [all_valid |-> pr_errors = <<>>,
         table |-> SortedItems(pr_counts),
         new_keys |-> Sorted(new_items, [i \in DOMAIN new_items |-> <<StrKey(new_items[i][1])>>]),
         increased_keys |-> Sorted(increased_keys,
                                   [i \in DOMAIN increased_keys |-> <<IntKey(-increased_keys[i][3])>>])]

\* -------------------------------------------------------- parse_yaml_file
\* A text is the sequence of its chunks, one per document of the stream: the
\* node the chunk parses to (None for an empty document), or SyntaxError when
\* yaml.safe_load_all raises YAMLError on reaching it.  The empty text is <<>>.
SyntaxError == [kind |-> "syntax_error", items |-> <<>>]

\* what open() and read() give: the text, or an exception
ReadOk(text) == [ok |-> TRUE, text |-> text]
ReadError == [ok |-> FALSE, text |-> <<>>]

\* for doc in yaml.safe_load_all(content): ... except yaml.YAMLError: ...
\* The generator yields each document before it parses the next one.
RECURSIVE LoadAll(_, _)
LoadAll(text, documents) ==
    IF text = <<>> THEN [documents |-> documents, errors |-> <<>>]
    ELSE IF Head(text) = SyntaxError
    THEN [documents |-> documents, errors |-> <<"YAML parse error">>]
    ELSE IF Head(text) = None THEN LoadAll(Tail(text), documents)
    ELSE LoadAll(Tail(text), Append(documents, Head(text)))

parse_yaml_file(read) ==
    IF read.ok THEN LoadAll(read.text, <<>>)
    ELSE [documents |-> <<>>, errors |-> <<"File read error">>]

\* d[k] = v on a dict
DictSet(d, k, v) ==
    IF k \in DictKeys(d)
    THEN [i \in DOMAIN d |-> IF d[i][1] = k THEN <<k, v>> ELSE d[i]]
    ELSE Append(d, <<k, v>>)

\* for doc in documents: for key, count in extract_keys(doc).items(): counts[key] += count
RECURSIVE AddDocuments(_, _)
AddDocuments(counts, documents) ==
    IF documents = <<>> THEN counts
    ELSE AddDocuments(DictMerge(counts, extract_keys(Head(documents), <<>>)), Tail(documents))

\* -------------------------------------------------------- scan_repository
\* one iteration of the loop over yaml_files
ScanFile(counts, errors_by_file, relative_path, read) ==
    LET result == parse_yaml_file(read)
    IN  [documents |-> result.documents,
         errors |-> result.errors,
         file_errors |-> IF result.errors # <<>>
                         THEN DictSet(errors_by_file, relative_path, result.errors)
                         ELSE errors_by_file,
         all_key_counts |-> AddDocuments(counts, result.documents)]

\* the loop from file i on, reads[j] being what reading files[j] gives
RECURSIVE ScanLoop(_, _, _, _, _)
ScanLoop(files, reads, i, counts, errors_by_file) ==
    IF i > Len(files) THEN [key_counts |-> counts, file_errors |-> errors_by_file]
    ELSE LET step == ScanFile(counts, errors_by_file, JoinPath(files[i]), reads[i])
         IN  ScanLoop(files, reads, i + 1, step.all_key_counts, step.file_errors)

scan_repository(files, reads) == ScanLoop(files, reads, 1, <<>>, <<>>)

\* --------------------------------------------------- analyze_pr_yaml_files
\* what requests.get and raise_for_status give for the raw URL
FetchOk(text) == [ok |-> TRUE, text |-> text]
FetchFailed == [ok |-> FALSE, text |-> <<>>]

\* the text, or "" when the request failed
fetch_file_content(response) == IF response.ok THEN response.text ELSE <<>>

\* the loop gets past `if not raw_url` and calls fetch_file_content
FetchIsCalled(file_info) == PrPassesFilters(file_info) /\ file_info.raw_url # ""

\* one iteration of the loop over pr_files
AnalyzeFile(counts, errors_by_file, file_info, response) ==
    LET unchanged(outcome) ==
            [pr_key_counts |-> counts, pr_file_errors |-> errors_by_file,
             fetch_outcome |-> outcome]
        content == fetch_file_content(response)
        result == LoadAll(content, <<>>)
    IN  IF ~PrPassesFilters(file_info) THEN unchanged("filtered")
        ELSE IF file_info.raw_url = "" THEN unchanged("no raw_url")
        ELSE IF content = <<>>
        THEN [pr_key_counts |-> counts,
              pr_file_errors |-> DictSet(errors_by_file, file_info.filename,
                                         <<"Could not fetch file content">>),
              fetch_outcome |-> IF response.ok THEN "fetched" ELSE "failed"]
        ELSE [pr_key_counts |-> AddDocuments(counts, result.documents),
              pr_file_errors |-> IF result.errors # <<>>
                                 THEN DictSet(errors_by_file, file_info.filename, result.errors)
                                 ELSE errors_by_file,
              fetch_outcome |-> "fetched"]

\* the loop from file i on, responses[j] being what fetching files[j] gives
RECURSIVE AnalyzeLoop(_, _, _, _, _)
AnalyzeLoop(files, responses, i, counts, errors_by_file) ==
    IF i > Len(files) THEN [pr_key_counts |-> counts, pr_file_errors |-> errors_by_file]
    ELSE LET step == AnalyzeFile(counts, errors_by_file, files[i], responses[i])
         IN  AnalyzeLoop(files, responses, i + 1, step.pr_key_counts, step.pr_file_errors)

\* ------------------------------------------------- process_pull_requests
\* the two early returns of process_pull_requests
SkipsPullRequests(token, repo_name) == token = "" \/ repo_name = ""

\* PrAccumulators with a fault: the dicts of the previous call are kept
PrAccumulatorsKept(previous) == previous

\* pr_key_counts = defaultdict(int); pr_file_errors = {}: new on every call
PrAccumulators(previous) == [pr_key_counts |-> <<>>, pr_file_errors |-> <<>>]

\* get_pr_files and the loop of analyze_pr_yaml_files
analyze_pr_yaml_files(files, responses, previous) ==
    LET start == PrAccumulators(previous)
    IN  AnalyzeLoop(files, responses, 1, start.pr_key_counts, start.pr_file_errors)

\* PostsComment with a fault: no comment for a PR without YAML keys
PostsCommentIfKeys(pr_counts) == pr_counts # <<>>

\* process_pull_requests calls post_pr_comment for the PR it analysed
PostsComment(pr_counts) == TRUE

\* ExitStatus with a fault: parse errors fail the run
ExitStatusFailsOnErrors(errors_by_file) == IF errors_by_file # <<>> THEN 1 ELSE 0

\* sys.exit(0)
ExitStatus(errors_by_file) == 0

\* ------------------------------------------- inputs of the extract_keys run
Keys == {<<"a">>, <<"b">>}

\* the orders in which k distinct keys can appear in a mapping
KeySeqs(k) ==
    {s \in [1..k -> Keys] : \A i, j \in 1..k : i # j => s[i] # s[j]}

RECURSIVE Trees(_), Forests(_)
\* the nodes made of exactly n nodes
Trees(n) ==
    IF n = 1 THEN {Scalar, None, Dict(<<>>), List(<<>>)}
    ELSE {List(f) : f \in Forests(n - 1)}
         \cup UNION {{Dict([i \in DOMAIN f |-> <<ks[i], f[i]>>]) : ks \in KeySeqs(Len(f))}
                     : f \in Forests(n - 1)}
\* the non-empty sequences of nodes made of exactly m nodes in all
Forests(m) ==
    {<<t>> : t \in Trees(m)}
    \cup UNION {{<<t>> \o f : t \in Trees(i), f \in Forests(m - i)} : i \in 1..(m - 1)}

A == <<"a">>
B == <<"b">>
\* {a: [1, 2, 3]}
DocScalarList == Dict(<< <<A, List(<<Scalar, Scalar, Scalar>>)>> >>)
\* {a: [{a: 1}, {b: 1}]}
DocMappingList == Dict(<< <<A, List(<<Dict(<< <<A, Scalar>> >>), Dict(<< <<B, Scalar>> >>)>>)>> >>)
\* {a: {b: 1}}
DocNested == Dict(<< <<A, Dict(<< <<B, Scalar>> >>)>> >>)

Docs == UNION {Trees(n) : n \in 1..MaxNodes} \cup {DocScalarList, DocMappingList, DocNested}
Prefixes == {<<>>, A}

InitExtract ==
    /\ pc = "extract_keys"
    /\ data \in Docs
    /\ prefix \in Prefixes
    /\ key_counts = NotUsed
    /\ PathsIdle
    /\ ReportIdle
    /\ ScanIdle
    /\ PrIdle
    /\ MainIdle

ExtractKeys ==
    /\ pc = "extract_keys"
    /\ key_counts' = extract_keys(data, prefix)
    /\ pc' = "returned"
    /\ UNCHANGED <<data, prefix, pathVars, reportVars, scanVars, prVars, mainVars>>

NextExtract == ExtractKeys

SpecExtract == InitExtract /\ [][NextExtract]_vars

\* a dict of counts as the bag of its keys
DictAsBag(d) == [k \in DictKeys(d) |-> DictGet(d, k, 0)]

\* no key appears twice among the items of d
DictWellFormed(d) == \A i, j \in DOMAIN d : d[i][1] = d[j][1] => i = j

RECURSIVE SumSeq(_)
SumSeq(ns) == IF ns = <<>> THEN 0 ELSE Head(ns) + SumSeq(Tail(ns))

RECURSIVE SumBags(_)
SumBags(bags) == IF bags = <<>> THEN EmptyBag ELSE Head(bags) (+) SumBags(Tail(bags))

\* The counts the documented rule assigns: a sequence adds one to prefix[] and
\* passes the same prefix to its elements, a mapping adds one to prefix.k for
\* each key k and passes that path to the value, anything else adds nothing.
RECURSIVE RuleCounts(_, _)
RuleCounts(node, pfx) ==
    LET join(k) == IF pfx = <<>> THEN k ELSE pfx \o DOT \o k
    IN  IF node.kind = "list"
        THEN SetToBag({pfx \o BRACKETS})
             (+) SumBags([i \in DOMAIN node.items |-> RuleCounts(node.items[i], pfx)])
        ELSE IF node.kind = "dict"
        THEN SumBags([i \in DOMAIN node.items |->
                         SetToBag({join(node.items[i][1])})
                         (+) RuleCounts(node.items[i][2], join(node.items[i][1]))])
        ELSE EmptyBag

ABrackets == A \o BRACKETS
ADotA == A \o DOT \o A
ADotB == A \o DOT \o B

\* C2: extract_keys returns, for every node and prefix, exactly the counts of
\* the documented rule (a sequence counts prefix[] once whatever its length and
\* its elements keep the prefix; a mapping counts prefix.k per key; a scalar or
\* null counts nothing), and gives the documented results on the examples
\* {a:[1,2,3]}, {a:[{a:1},{b:1}]}, {a:{}} and {a:[]}.
C2_ExtractKeysRule ==
    pc = "returned" =>
        /\ DictWellFormed(key_counts)
        /\ DictAsBag(key_counts) = RuleCounts(data, prefix)
        /\ (data.kind \in {"scalar", "none"} => key_counts = <<>>)
        /\ (data.kind = "list" =>
               DictGet(key_counts, prefix \o BRACKETS, 0)
                 = 1 + SumSeq([i \in DOMAIN data.items |->
                                 DictGet(extract_keys(data.items[i], prefix),
                                         prefix \o BRACKETS, 0)]))
        /\ (data = DocScalarList /\ prefix = <<>> =>
               DictAsBag(key_counts) = (A :> 1) @@ (ABrackets :> 1))
        /\ (data = DocMappingList /\ prefix = <<>> =>
               DictAsBag(key_counts)
                 = (A :> 1) @@ (ABrackets :> 1) @@ (ADotA :> 1) @@ (ADotB :> 1))
        /\ (data = Dict(<< <<A, Dict(<<>>)>> >>) /\ prefix = <<>> =>
               DictAsBag(key_counts) = (A :> 1))
        /\ (data = Dict(<< <<A, List(<<>>)>> >>) /\ prefix = <<>> =>
               DictAsBag(key_counts) = (A :> 1) @@ (ABrackets :> 1))

C2_Witness ==
    /\ pc = "returned"
    /\ data = DocMappingList
    /\ prefix = <<>>
    /\ DictGet(key_counts, ABrackets, 0) = 1
    /\ DictGet(key_counts, ADotB, 0) = 1

\* ------------------------------------------------ the two exclusion filters
MyDotGithub == <<"m", "y">> \o DotGithub
Sub == <<"s", "u", "b">>
DirNames == {DotGit, DotGithub, Workflows, MyDotGithub, Sub}
FileNames == {<<"x">> \o DotYml, <<"x">> \o DotYaml, <<"x", ".", "t", "x", "t">>}
Paths ==
    UNION {{dirs \o <<name>> : dirs \in [1..n -> DirNames], name \in FileNames}
           : n \in 0..MaxDirs}

InitPaths ==
    /\ pc = "find_yaml_files"
    /\ file_path \in Paths
    /\ scan_lists = NotUsed
    /\ pr_reaches = NotUsed
    /\ ExtractIdle
    /\ ReportIdle
    /\ ScanIdle
    /\ PrIdle
    /\ MainIdle

\* find_yaml_files on a repository that holds file_path
FindYamlFiles ==
    /\ pc = "find_yaml_files"
    /\ scan_lists' = (find_yaml_files({file_path}) = <<file_path>>)
    /\ pc' = "analyze_pr_yaml_files"
    /\ UNCHANGED <<file_path, pr_reaches, extractVars, reportVars, scanVars, prVars, mainVars>>

\* analyze_pr_yaml_files on a PR that adds file_path, up to the fetch
AnalyzePrFilters ==
    /\ pc = "analyze_pr_yaml_files"
    /\ pr_reaches' = PrPassesFilters(FileInfo(JoinPath(file_path), "added", "raw_url"))
    /\ pc' = "filtered"
    /\ UNCHANGED <<file_path, scan_lists, extractVars, reportVars, scanVars, prVars, mainVars>>

NextPaths == FindYamlFiles \/ AnalyzePrFilters

SpecPaths == InitPaths /\ [][NextPaths]_vars

HasYamlExtension(parts) ==
    EndsWith(parts[Len(parts)], DotYml) \/ EndsWith(parts[Len(parts)], DotYaml)

\* the documented rule: a segment .git, or .github directly followed by workflows
RuleExcludes(parts) ==
    \/ \E i \in DOMAIN parts : parts[i] = DotGit
    \/ \E i \in 1..(Len(parts) - 1) : parts[i] = DotGithub /\ parts[i + 1] = Workflows

\* C6: for every path with a YAML extension the repository scan and the PR
\* analysis agree, and both exclude it exactly when it has a segment .git or
\* lies under .github/workflows (decided on segments).
C6_SameExclusionRule ==
    (pc = "filtered" /\ HasYamlExtension(file_path)) =>
        /\ scan_lists = pr_reaches
        /\ scan_lists = ~RuleExcludes(file_path)

\* --------------------------------------------------- the two sorted reports
\* a mapping key may itself spell "a.b" or "a[]", so every dict over these
\* key paths, with any counts and insertion order, is a result of extract_keys
KeyPool == {A, ADotB, ABrackets}

\* the dicts over KeyPool with counts 1..MaxCount, in every insertion order
OrderedDicts ==
    UNION {{d \in [1..n -> KeyPool \X (1..MaxCount)] : DictWellFormed(d)}
           : n \in 0..Cardinality(KeyPool)}

InitReport ==
    /\ pc = "write_key_counts"
    /\ repo_key_counts \in OrderedDicts
    /\ pr_key_counts \in OrderedDicts
    /\ pr_file_errors = <<>>
    /\ output_file = NoOutputFile
    /\ comment = NoComment
    /\ pr_files = NotUsed
    /\ pr_index = NotUsed
    /\ fetch_outcome = NotUsed
    /\ ExtractIdle
    /\ PathsIdle
    /\ ScanIdle
    /\ MainIdle

WriteKeyCounts ==
    /\ pc = "write_key_counts"
    /\ output_file' = write_key_counts(repo_key_counts)
    /\ pc' = "build_pr_comment"
    /\ UNCHANGED <<repo_key_counts, comment, extractVars, pathVars, scanVars, prVars, mainVars>>

BuildPrComment ==
    /\ pc = "build_pr_comment"
    /\ comment' = build_pr_comment(pr_key_counts, repo_key_counts, pr_file_errors)
    /\ pc' = "built"
    /\ UNCHANGED <<repo_key_counts, output_file, extractVars, pathVars, scanVars, prVars, mainVars>>

NextReport == WriteKeyCounts \/ BuildPrComment

SpecReport == InitReport /\ [][NextReport]_vars

\* count descending, then keypath ascending, strictly
StrictlyBefore(c1, k1, c2, k2) == c1 > c2 \/ (c1 = c2 /\ StrLess(k1, k2))

\* the item of d whose line is `line`
ItemOfLine(d, line) ==
    CHOOSE j \in DOMAIN d : line = IntToStr(d[j][2]) \o <<"\t">> \o d[j][1] \o <<"\n">>

\* C4: write_key_counts emits exactly one line "<count>\t<keypath>" per key, by
\* count descending and keypath ascending among equal counts, so that any two
\* consecutive lines are strictly ordered; the key table of build_pr_comment
\* uses the same order.
C4_SortedOutput ==
    /\ pc \in {"build_pr_comment", "built"} =>
        /\ Len(output_file.lines) = Len(repo_key_counts)
        /\ \A j \in DOMAIN repo_key_counts : \E i \in DOMAIN output_file.lines :
              output_file.lines[i]
                = IntToStr(repo_key_counts[j][2]) \o <<"\t">> \o repo_key_counts[j][1] \o <<"\n">>
        /\ \A i \in 1..(Len(output_file.lines) - 1) :
              LET x == repo_key_counts[ItemOfLine(repo_key_counts, output_file.lines[i])]
                  y == repo_key_counts[ItemOfLine(repo_key_counts, output_file.lines[i + 1])]
              IN  StrictlyBefore(x[2], x[1], y[2], y[1])
    /\ pc = "built" =>
        /\ Len(comment.table) = Len(pr_key_counts)
        /\ \A j \in DOMAIN pr_key_counts : \E i \in DOMAIN comment.table :
              comment.table[i] = pr_key_counts[j]
        /\ \A i \in 1..(Len(comment.table) - 1) :
              StrictlyBefore(comment.table[i][2], comment.table[i][1],
                             comment.table[i + 1][2], comment.table[i + 1][1])

\* repo {a.b: 2, a[]: 2, a: 1} is written a.b, a[], a; PR {a[]: 3, a: 3, a.b: 2} is tabled a, a[], a.b
C4_Witness ==
    /\ pc = "built"
    /\ repo_key_counts = << <<A, 1>>, <<ADotB, 2>>, <<ABrackets, 2>> >>
    /\ output_file.lines = << <<"2", "\t">> \o ADotB \o <<"\n">>,
                        <<"2", "\t">> \o ABrackets \o <<"\n">>,
                        <<"1", "\t">> \o A \o <<"\n">> >>
    /\ pr_key_counts = << <<ABrackets, 3>>, <<A, 3>>, <<ADotB, 2>> >>
    /\ comment.table = << <<A, 3>>, <<ABrackets, 3>>, <<ADotB, 2>> >>

\* C5: every key of the PR's counts is listed exactly once, as new when the
\* repository does not count it and as increased with (prior, pr, prior + pr)
\* when it does; new keys ascend by keypath, increased keys do not ascend by
\* PR count.
C5_Classification ==
    pc = "built" =>
        LET new == comment.new_keys
            inc == comment.increased_keys
            IsNew(k) == \E i \in DOMAIN new : new[i][1] = k
            IsInc(k) == \E i \in DOMAIN inc : inc[i][1] = k
        IN  /\ Len(new) + Len(inc) = Len(pr_key_counts)
            /\ \A j \in DOMAIN pr_key_counts :
                  LET k == pr_key_counts[j][1]
                      prior == IF k \in DictKeys(repo_key_counts)
                               THEN DictGet(repo_key_counts, k, 0) ELSE 0
                  IN  /\ IsNew(k) # IsInc(k)
                      /\ IsNew(k) <=> prior = 0
                      /\ IsInc(k) <=> prior > 0
                      /\ IsInc(k) =>
                            \E i \in DOMAIN inc :
                                inc[i] = <<k, prior, pr_key_counts[j][2],
                                           prior + pr_key_counts[j][2]>>
            /\ \A i \in 1..(Len(new) - 1) : StrLess(new[i][1], new[i + 1][1])
            /\ \A i \in 1..(Len(inc) - 1) : inc[i][3] >= inc[i + 1][3]

\* repo {a: 3}, PR {a: 2, a.b: 1}: a is increased with (3, 2, 5) and a.b is new
C5_Witness ==
    /\ pc = "built"
    /\ repo_key_counts = << <<A, 3>> >>
    /\ pr_key_counts = << <<A, 2>>, <<ADotB, 1>> >>
    /\ comment.increased_keys = << <<A, 3, 2, 5>> >>
    /\ comment.new_keys = << <<ADotB, 1>> >>

\* ------------------------------------------------------ the repository scan
AYml == <<"a">> \o DotYml
BYaml == <<"b">> \o DotYaml
NotesTxt == <<"n", "o", "t", "e", "s", ".", "t", "x", "t">>
\* a.yml, sub/b.yaml, .git/a.yml, notes.txt
RepoFiles == {<<AYml>>, <<Sub, BYaml>>, <<DotGit, AYml>>, <<NotesTxt>>}
RepoTrees == SUBSET RepoFiles

Chunks == {None, DocNested, DocScalarList, SyntaxError}
Texts == UNION {[1..n -> Chunks] : n \in 0..MaxChunks}
Reads == {ReadError} \cup {ReadOk(t) : t \in Texts}

InitScan ==
    /\ pc = "scan_repository"
    /\ tree \in RepoTrees
    /\ yaml_files = <<>>
    /\ file_index = 1
    /\ all_key_counts = <<>>
    /\ file_errors = <<>>
    /\ parsed = <<>>
    /\ ExtractIdle
    /\ PathsIdle
    /\ ReportIdle
    /\ PrIdle
    /\ MainIdle

ScanFindFiles ==
    /\ pc = "scan_repository"
    /\ yaml_files' = find_yaml_files(tree)
    /\ pc' = "scan_loop"
    /\ UNCHANGED <<tree, file_index, all_key_counts, file_errors, parsed,
                   extractVars, pathVars, reportVars, prVars, mainVars>>

ScanNextFile ==
    /\ pc = "scan_loop"
    /\ file_index <= Len(yaml_files)
    /\ \E read \in Reads :
          LET step == ScanFile(all_key_counts, file_errors,
                               JoinPath(yaml_files[file_index]), read)
          IN  /\ all_key_counts' = step.all_key_counts
              /\ file_errors' = step.file_errors
              /\ parsed' = Append(parsed, [file |-> yaml_files[file_index],
                                           documents |-> step.documents,
                                           errors |-> step.errors,
                                           counts |-> step.all_key_counts])
    /\ file_index' = file_index + 1
    /\ UNCHANGED <<pc, tree, yaml_files, extractVars, pathVars, reportVars, prVars, mainVars>>

ScanReturn ==
    /\ pc = "scan_loop"
    /\ file_index > Len(yaml_files)
    /\ pc' = "scan_returned"
    /\ UNCHANGED <<scanVars, extractVars, pathVars, reportVars, prVars, mainVars>>

NextScan == ScanFindFiles \/ ScanNextFile \/ ScanReturn

SpecScan == InitScan /\ [][NextScan]_vars

\* C1: a file whose stream raises a syntax error at any document yields zero
\* documents and exactly one error string, and leaves the aggregate as it was.
C1_FailedFileContributesNothing ==
    \A i \in DOMAIN parsed :
        parsed[i].errors # <<>> =>
            /\ parsed[i].documents = <<>>
            /\ Len(parsed[i].errors) = 1
            /\ parsed[i].counts = IF i = 1 THEN <<>> ELSE parsed[i - 1].counts

\* the counts of the documents of the files that parsed without error
CountsOfValidFiles ==
    SumBags([i \in DOMAIN parsed |->
                IF parsed[i].errors = <<>>
                THEN SumBags([j \in DOMAIN parsed[i].documents |->
                                 DictAsBag(extract_keys(parsed[i].documents[j], <<>>))])
                ELSE EmptyBag])

\* C3: the scan processes every enumerated file, the returned count of each
\* path is the sum over the documents of the files that parsed without error,
\* and no count decreases from one file to the next.
C3_ScanCompleteAndAdditive ==
    /\ pc = "scan_returned" =>
        /\ [i \in DOMAIN parsed |-> parsed[i].file] = yaml_files
        /\ DictAsBag(all_key_counts) = CountsOfValidFiles
    /\ \A i \in DOMAIN parsed : \A k \in DictKeys(IF i = 1 THEN <<>> ELSE parsed[i - 1].counts) :
          DictGet(parsed[i].counts, k, 0) >= DictGet(parsed[i - 1].counts, k, 0)

\* ------------------------------------------------- the analysis of one PR
WorkflowYml == DotGithubWorkflows \o <<"/", "c", "i">> \o DotYml
PrFilenames == {AYml, Sub \o <<"/">> \o BYaml, WorkflowYml, NotesTxt}
FileInfos ==
    {FileInfo(f, st, u) : f \in PrFilenames, st \in {"added", "removed"}, u \in {"", "raw_url"}}
\* the file lists of a PR: no filename twice
PrFileLists ==
    UNION {{l \in [1..n -> FileInfos] :
              \A i, j \in 1..n : l[i].filename = l[j].filename => i = j}
           : n \in 0..MaxPrFiles}
FetchResponses ==
    {FetchFailed, FetchOk(<<>>), FetchOk(<<None>>), FetchOk(<<DocNested>>),
     FetchOk(<<DocScalarList>>), FetchOk(<<DocNested, SyntaxError>>)}

InitPr ==
    /\ pc = "analyze_pr_yaml_files"
    /\ pr_files = <<>>
    /\ pr_index = 1
    /\ pr_key_counts = <<>>
    /\ pr_file_errors = <<>>
    /\ fetch_outcome = NotUsed
    /\ ExtractIdle
    /\ PathsIdle
    /\ ReportIdle
    /\ ScanIdle
    /\ MainIdle

\* get_pr_files: the list, or [] when the request failed
GetPrFiles ==
    /\ pc = "analyze_pr_yaml_files"
    /\ \E ok \in BOOLEAN : \E list \in PrFileLists :
          pr_files' = IF ok THEN list ELSE <<>>
    /\ pc' = "pr_loop"
    /\ UNCHANGED <<pr_index, pr_key_counts, pr_file_errors, fetch_outcome,
                   extractVars, pathVars, reportVars, scanVars, mainVars>>

AnalyzeNextFile ==
    /\ pc = "pr_loop"
    /\ pr_index <= Len(pr_files)
    /\ \E response \in FetchResponses :
          LET step == AnalyzeFile(pr_key_counts, pr_file_errors, pr_files[pr_index], response)
          IN  /\ pr_key_counts' = step.pr_key_counts
              /\ pr_file_errors' = step.pr_file_errors
              /\ fetch_outcome' = step.fetch_outcome
    /\ pr_index' = pr_index + 1
    /\ UNCHANGED <<pc, pr_files, extractVars, pathVars, reportVars, scanVars, mainVars>>

AnalyzeReturn ==
    /\ pc = "pr_loop"
    /\ pr_index > Len(pr_files)
    /\ pc' = "pr_returned"
    /\ UNCHANGED <<prVars, extractVars, pathVars, reportVars, scanVars, mainVars>>

NextPr == GetPrFiles \/ AnalyzeNextFile \/ AnalyzeReturn

SpecPr == InitPr /\ [][NextPr]_vars

\* C7: a considered file gets the error "Could not fetch file content" and adds
\* no key counts exactly when its content could not be fetched (the request
\* failed, or there was no raw URL to request); a file fetched successfully,
\* even with empty text, gets no fetch error.
C7_FetchErrorIffNotFetched ==
    [][(pc = "pr_loop" /\ pr_index' = pr_index + 1 /\ PrPassesFilters(pr_files[pr_index])) =>
          LET filename == pr_files[pr_index].filename
              has_fetch_error ==
                  DictGet(pr_file_errors', filename, <<>>) = <<"Could not fetch file content">>
          IN  /\ has_fetch_error <=> fetch_outcome' # "fetched"
              /\ fetch_outcome' # "fetched" => pr_key_counts' = pr_key_counts]_vars

\* ------------------------------------------------------------ a run of main
MainReads == {ReadError, ReadOk(<<DocNested>>), ReadOk(<<DocScalarList>>),
              ReadOk(<<SyntaxError>>)}

\* the PR lists get_open_prs can return: PR numbers, none twice
PrLists ==
    UNION {{l \in [1..n -> 1..MaxPrs] : \A i, j \in 1..n : l[i] = l[j] => i = j}
           : n \in 0..MaxPrs}

AAdded == FileInfo(AYml, "added", "raw_url")
BModified == FileInfo(Sub \o <<"/">> \o BYaml, "modified", "raw_url")
\* what the hosting API answers for one PR: its files, and the content of each
\* file that is requested (FetchFailed stands where no request is made)
MainPrAnswers ==
    {[files |-> <<>>, responses |-> <<>>],
     [files |-> <<AAdded>>, responses |-> <<FetchFailed>>],
     [files |-> <<AAdded>>, responses |-> <<FetchOk(<<DocNested>>)>>],
     [files |-> <<FileInfo(NotesTxt, "added", "raw_url")>>, responses |-> <<FetchFailed>>],
     [files |-> <<AAdded, BModified>>,
      responses |-> <<FetchOk(<<DocScalarList>>), FetchOk(<<SyntaxError>>)>>],
     [files |-> <<BModified, AAdded>>,
      responses |-> <<FetchOk(<<DocNested>>), FetchOk(<<DocNested>>)>>]}

InitMain ==
    /\ pc = "scan_repository"
    /\ github_token \in {"", "token"}
    /\ repo \in {"", "owner/repo"}
    /\ repo_key_counts = <<>>
    /\ file_errors = <<>>
    /\ output_file = NoOutputFile
    /\ comment = NoComment
    /\ prs = <<>>
    /\ pr_position = 1
    /\ pr_files = <<>>
    /\ pr_responses = <<>>
    /\ pr_key_counts = <<>>
    /\ pr_file_errors = <<>>
    /\ posted = <<>>
    /\ failed_calls = {}
    /\ api_calls = 0
    /\ exit_status = -1       \* the process has not exited
    /\ tree = NotUsed
    /\ yaml_files = NotUsed
    /\ file_index = NotUsed
    /\ all_key_counts = NotUsed
    /\ parsed = NotUsed
    /\ pr_index = NotUsed
    /\ fetch_outcome = NotUsed
    /\ ExtractIdle
    /\ PathsIdle

mainFrame == <<extractVars, pathVars, tree, yaml_files, file_index, all_key_counts, parsed,
               pr_index, fetch_outcome, github_token, repo>>

\* repo_key_counts, file_errors = scan_repository('.')
MainScanRepository ==
    /\ pc = "scan_repository"
    /\ \E files \in RepoTrees :
          LET found == find_yaml_files(files)
          IN  \E reads \in [DOMAIN found -> MainReads] :
                  LET result == scan_repository(found, reads)
                  IN  /\ repo_key_counts' = result.key_counts
                      /\ file_errors' = result.file_errors
    /\ pc' = "write_key_counts"
    /\ UNCHANGED <<output_file, comment, prs, pr_position, pr_files, pr_responses,
                   pr_key_counts, pr_file_errors, posted, failed_calls, api_calls,
                   exit_status, mainFrame>>

\* write_key_counts(repo_key_counts, output_file)
MainWriteKeyCounts ==
    /\ pc = "write_key_counts"
    /\ output_file' = write_key_counts(repo_key_counts)
    /\ pc' = "process_pull_requests"
    /\ UNCHANGED <<repo_key_counts, file_errors, comment, prs, pr_position, pr_files,
                   pr_responses, pr_key_counts, pr_file_errors, posted, failed_calls,
                   api_calls, exit_status, mainFrame>>

\* process_pull_requests returns at once without a token or a repository name
SkipPullRequests ==
    /\ pc = "process_pull_requests"
    /\ SkipsPullRequests(github_token, repo)
    /\ pc' = "exit"
    /\ UNCHANGED <<repo_key_counts, file_errors, output_file, comment, prs, pr_position,
                   pr_files, pr_responses, pr_key_counts, pr_file_errors, posted,
                   failed_calls, api_calls, exit_status, mainFrame>>

\* prs = get_open_prs(github_token, repo): the list, or [] when the request failed
GetOpenPrs ==
    /\ pc = "process_pull_requests"
    /\ ~SkipsPullRequests(github_token, repo)
    /\ \E ok \in BOOLEAN : \E list \in PrLists :
          /\ prs' = IF github_token = "" \/ ~ok THEN <<>> ELSE list
          /\ api_calls' = IF github_token = "" THEN api_calls ELSE api_calls + 1
          /\ failed_calls' = IF github_token # "" /\ ~ok
                             THEN failed_calls \cup {"list PRs"} ELSE failed_calls
    /\ pr_position' = 1
    /\ pc' = "pr_loop"
    /\ UNCHANGED <<repo_key_counts, file_errors, output_file, comment, pr_files,
                   pr_responses, pr_key_counts, pr_file_errors, posted, exit_status,
                   mainFrame>>

\* pr_key_counts, pr_file_errors = analyze_pr_yaml_files(github_token, repo, pr_number)
AnalyzePr ==
    /\ pc = "pr_loop"
    /\ pr_position <= Len(prs)
    /\ \E ok \in BOOLEAN : \E answer \in MainPrAnswers :
          LET files == IF ok THEN answer.files ELSE <<>>
              responses == IF ok THEN answer.responses ELSE <<>>
              requested == {i \in DOMAIN files : FetchIsCalled(files[i])}
              result == analyze_pr_yaml_files(
                            files, responses,
                            [pr_key_counts |-> pr_key_counts, pr_file_errors |-> pr_file_errors])
          IN  /\ pr_files' = files
              /\ pr_responses' = responses
              /\ pr_key_counts' = result.pr_key_counts
              /\ pr_file_errors' = result.pr_file_errors
              /\ api_calls' = api_calls + 1 + Cardinality(requested)
              /\ failed_calls' =
                    failed_calls
                    \cup (IF ok THEN {} ELSE {"list files"})
                    \cup (IF \E i \in requested : ~responses[i].ok THEN {"fetch content"} ELSE {})
    /\ pc' = "build_pr_comment"
    /\ UNCHANGED <<repo_key_counts, file_errors, output_file, comment, prs, pr_position,
                   posted, exit_status, mainFrame>>

\* comment = build_pr_comment(pr_number, pr_key_counts, repo_key_counts, pr_file_errors)
MainBuildPrComment ==
    /\ pc = "build_pr_comment"
    /\ comment' = build_pr_comment(pr_key_counts, repo_key_counts, pr_file_errors)
    /\ pc' = "post_pr_comment"
    /\ UNCHANGED <<repo_key_counts, file_errors, output_file, prs, pr_position, pr_files,
                   pr_responses, pr_key_counts, pr_file_errors, posted, failed_calls,
                   api_calls, exit_status, mainFrame>>

\* post_pr_comment(github_token, repo, pr_number, comment): a failure is printed
PostPrComment ==
    /\ pc = "post_pr_comment"
    /\ \E ok \in BOOLEAN :
          IF PostsComment(pr_key_counts)
          THEN /\ posted' = Append(posted, prs[pr_position])
               /\ api_calls' = api_calls + 1
               /\ failed_calls' = IF ok THEN failed_calls ELSE failed_calls \cup {"post comment"}
          ELSE UNCHANGED <<posted, api_calls, failed_calls>>
    /\ pr_position' = pr_position + 1
    /\ pc' = "pr_loop"
    /\ UNCHANGED <<repo_key_counts, file_errors, output_file, comment, prs, pr_files,
                   pr_responses, pr_key_counts, pr_file_errors, exit_status, mainFrame>>

\* the loop over prs is over
PullRequestsDone ==
    /\ pc = "pr_loop"
    /\ pr_position > Len(prs)
    /\ pc' = "exit"
    /\ UNCHANGED <<repo_key_counts, file_errors, output_file, comment, prs, pr_position,
                   pr_files, pr_responses, pr_key_counts, pr_file_errors, posted,
                   failed_calls, api_calls, exit_status, mainFrame>>

\* sys.exit(0)
Exit ==
    /\ pc = "exit"
    /\ exit_status' = ExitStatus(file_errors)
    /\ pc' = "exited"
    /\ UNCHANGED <<repo_key_counts, file_errors, output_file, comment, prs, pr_position,
                   pr_files, pr_responses, pr_key_counts, pr_file_errors, posted,
                   failed_calls, api_calls, mainFrame>>

NextMain ==
    \/ MainScanRepository
    \/ MainWriteKeyCounts
    \/ SkipPullRequests
    \/ GetOpenPrs
    \/ AnalyzePr
    \/ MainBuildPrComment
    \/ PostPrComment
    \/ PullRequestsDone
    \/ Exit

\* main is one sequential process: it takes its next step as long as it has one
SpecMain == InitMain /\ [][NextMain]_vars /\ WF_vars(NextMain)

C10_PrsLeaveBaselineAlone ==
    /\ api_calls > 0 =>
          /\ output_file.written
          /\ output_file.lines = write_key_counts(repo_key_counts).lines
    /\ pc \in {"build_pr_comment", "post_pr_comment"} =>
          /\ pr_key_counts = AnalyzeLoop(pr_files, pr_responses, 1, <<>>, <<>>).pr_key_counts
          /\ pr_file_errors = AnalyzeLoop(pr_files, pr_responses, 1, <<>>, <<>>).pr_file_errors
    /\ pc = "post_pr_comment" =>
          comment = build_pr_comment(
                        AnalyzeLoop(pr_files, pr_responses, 1, <<>>, <<>>).pr_key_counts,
                        repo_key_counts,
                        AnalyzeLoop(pr_files, pr_responses, 1, <<>>, <<>>).pr_file_errors)

\* the second PR is analysed after a first one that counted keys and had an error
C10_Witness ==
    /\ pc = "post_pr_comment"
    /\ pr_position = 2
    /\ posted = <<1>>
    /\ pr_files = <<AAdded>>
    /\ pr_key_counts = << <<A, 1>>, <<ADotB, 1>> >>
    /\ pr_file_errors = <<>>
    /\ repo_key_counts # <<>>
    /\ comment.all_valid
====
